---- MODULE Spec2Model ----
(***************************************************************************)
(* whapp-irc: the per-client Connection of connection.go.                  *)
(*                                                                         *)
(* BindSocket runs these tasks: the reader goroutine (lines 74-95), the    *)
(* dispatch goroutine (129-161) that calls welcome() and, inside it, the   *)
(* retrying setup(), the body of BindSocket itself (163-267: wait for the  *)
(* welcome, wait for capability negotiation, catch-up, start the two       *)
(* supervisory goroutines, wait for the cancellation), the logged-in poll  *)
(* (206-230), the live relay (232-263) and the asynchronous saves          *)
(* (go conn.saveDatabaseEntry()).                                          *)
(***************************************************************************)
EXTENDS Integers, Sequences, FiniteSets, TLC

\* ------------------------------------------------------------------ bounds
MaxTs == 3
MaxFetch == 2
MaxLive == 3
MaxInbuf == 1
MaxJoinLines == 15

\* --------------------------------------------------------- program constants
\* retry.Attempts(5), connection.go:120
Attempts == 5
\* GetMessageQueue(ctx, messageCh, 50), connection.go:239
QueueWindow == 50
\* math.MinInt64 (connection.go:180): below every timestamp of the model
MinInt64 == 0 - 1000

\* ------------------------------------------------------- the platform's data
AllChats == {"c1", "c2"}
\* whapp.Chat.Timestamp of each chat, as GetAllChats reports it
RawChatTimestamp == [c \in AllChats |-> IF c = "c1" THEN 2 ELSE 3]
\* whapp.Chat.IsGroupChat
RawIsGroupChat == [c \in AllChats |-> c = "c1"]
\* a participant with Contact.IsMe and IsAdmin (joinChat, lines 299-303)
RawSelfIsAdmin == [c \in AllChats |-> c = "c1"]
\* the order in which GetAllChats enumerates the chats
RawChatOrder == <<"c1", "c2">>

Nicks == {"n1", "n2"}
TsDom == 1..MaxTs
\* a watermark map: 0 stands for "no entry"
Absent == 0
WmMaps == [AllChats -> (0..MaxTs)]
EmptyMap == [c \in AllChats |-> Absent]
\* a Persisted User Record (its watermark snapshot), and the absence of one
UserRecord(m) == [found |-> TRUE, wm |-> m]
NoRecord == [found |-> FALSE, wm |-> EmptyMap]
NoMsg == [cmd |-> "none", arg |-> ""]
NoFut == [id |-> 0, res |-> "none"]
NotFetched == <<0 - 1>>

\* the IRC messages a client may send
ClientMsgs ==
    {[cmd |-> "NICK", arg |-> n] : n \in Nicks}
    \cup {[cmd |-> "JOIN", arg |-> c] : c \in AllChats}
    \cup {[cmd |-> k, arg |-> ""] : k \in {"PING", "CAPREQ", "CAPEND"}}

\* every list GetMessagesFromChatTillDate may return: any order, duplicates,
\* timestamps at or below the watermark
FetchResults == UNION {[1..n -> TsDom] : n \in 0..MaxFetch}

VARIABLES
    sockOpen,        \* the TCP transport is open (neither side closed it)
    inbuf,           \* lines the client sent that the decoder has not read
    readerPc,        \* reader goroutine: "decode", "send", "done"
    readerMsg,       \* the message the reader is handing to ircCh
    dispPc,          \* dispatch goroutine: "select", "setup", "done"
    attempt,         \* calls of the retried function made so far
    nickname,        \* conn.nickname
    welcomed,        \* conn.welcomed
    welcomeLines,    \* number of 001 lines written
    welcomeChClosed, \* close(conn.welcomeCh) happened
    gaveUp,          \* the "giving up trying to setup" status was written
    setupErr,        \* where the last call of setup() returned ("None": nil)
    caps,            \* conn.caps: [replay, finished]
    cancelled,       \* ctx is cancelled
    bridgeRunning,   \* conn.bridge is started
    Chats,           \* conn.Chats: sequence of [ID, Joined]
    timestampMap,    \* conn.timestampMap
    db,              \* userDb: nickname -> Persisted User Record
    saveQ,           \* saves spawned whose GetCopy has not run
    saveCopies,      \* copies taken by saves whose SaveItem has not run
    mainPc,          \* BindSocket: waitWelcome, waitNeg, catchup, messages,
                     \* startTasks, waitCtx, returned
    empty,           \* local "empty" of BindSocket (line 166)
    ci,              \* index into conn.Chats of the catch-up loop
    prevTimestamp,   \* local prevTimestamp (line 168/180)
    messages,        \* local messages (line 183)
    mi,              \* index into messages
    startWm,         \* the Watermark Map when catch-up started
    fetched,         \* per chat, the list the fetch returned
    delivered,       \* messages written to the client by handleWhappMessage
    joinOut,         \* per chat, the lines joinChat wrote
    joinResult,      \* what the last call of joinChat did
    pollPc,          \* logged-in poll goroutine: "off", "run", "done"
    livePc,          \* live relay goroutine: "off", "select", "await", "done"
    queue,           \* GetMessageQueue's channel of futures, arrival order
    msgFut,          \* the future the live relay took from the queue
    nextSlot         \* the slot of the next live event

vars == <<sockOpen, inbuf, readerPc, readerMsg, dispPc, attempt, nickname,
          welcomed, welcomeLines, welcomeChClosed, gaveUp, setupErr, caps,
          cancelled, bridgeRunning, Chats, timestampMap, db, saveQ, saveCopies,
          mainPc,
          empty, ci, prevTimestamp, messages, mi, startWm, fetched, delivered,
          joinOut, joinResult, pollPc, livePc, queue, msgFut, nextSlot>>

envVars == <<sockOpen, inbuf>>
readerVars == <<readerPc, readerMsg>>
dispVars == <<dispPc, attempt, nickname, welcomed, welcomeLines,
              welcomeChClosed, gaveUp, setupErr>>
mainVars == <<mainPc, empty, ci, prevTimestamp, messages, mi, startWm, fetched>>
liveVars == <<pollPc, livePc, queue, msgFut, nextSlot>>
joinVars == <<joinOut, joinResult>>
saveVars == <<saveQ, saveCopies>>

\* MakeConnection, the start of BindSocket, and the store as earlier
\* sessions left it
InitOf(stores) ==
    /\ sockOpen = TRUE
    /\ inbuf = <<>>
    /\ readerPc = "decode"
    /\ readerMsg = NoMsg
    /\ dispPc = "select"
    /\ attempt = 0
    /\ nickname = ""
    /\ welcomed = FALSE
    /\ welcomeLines = 0
    /\ welcomeChClosed = FALSE
    /\ gaveUp = FALSE
    /\ setupErr = "None"
    /\ caps = [replay |-> FALSE, finished |-> FALSE]
    /\ cancelled = FALSE
    /\ bridgeRunning = FALSE
    /\ Chats = <<>>
    /\ timestampMap = EmptyMap
    /\ db \in stores
    /\ saveQ = 0
    /\ saveCopies = {}
    /\ mainPc = "waitWelcome"
    /\ empty = FALSE
    /\ ci = 0
    /\ prevTimestamp = 0
    /\ messages = <<>>
    /\ mi = 0
    /\ startWm = EmptyMap
    /\ fetched = [c \in AllChats |-> NotFetched]
    /\ delivered = <<>>
    /\ joinOut = [c \in AllChats |-> <<>>]
    /\ joinResult = "none"
    /\ pollPc = "off"
    /\ livePc = "off"
    /\ queue = <<>>
    /\ msgFut = NoFut
    /\ nextSlot = 1

\* the stores an earlier session of "n1" may have left
AllStores ==
    {d \in [Nicks -> {UserRecord(m) : m \in WmMaps} \cup {NoRecord}] :
        d["n2"] = NoRecord}

Init == InitOf(AllStores)

\* ------------------------------------------------------------ TimestampMap
\* TimestampMap.Length: the number of entries
TmLength(m) == Cardinality({c \in AllChats : m[c] # Absent})

\* TimestampMap.Get: (value, found); Go's zero value when there is no entry
TmGet(m, c) == [val |-> m[c], found |-> m[c] # Absent]

\* TimestampMap.Set
TmSet(m, c, v) == [m EXCEPT ![c] = v]

\* ------------------------------------------------------------------- chats
\* GetChatByID / GetChatByIdentifier: the index of the chat, 0 for nil
ChatIndex(chs, id) ==
    IF \E i \in 1..Len(chs) : chs[i].ID = id
    THEN CHOOSE i \in 1..Len(chs) :
             /\ chs[i].ID = id
             /\ \A j \in 1..(i - 1) : chs[j].ID # id
    ELSE 0

\* convertChat: the projection of a platform chat, never joined
ConvertChat(id) == [ID |-> id, Joined |-> FALSE]

\* mutant: addChat appends without looking for the ID
AddChat_AlwaysAppend(chs, id) == Append(chs, ConvertChat(id))

\* addChat: replace the entry with the same ID, or append
AddChat(chs, id) ==
    IF ChatIndex(chs, id) # 0
    THEN [chs EXCEPT ![ChatIndex(chs, id)] = ConvertChat(id)]
    ELSE Append(chs, ConvertChat(id))

\* setup's loop over the chats GetAllChats returned: the first n are added
RECURSIVE AddChats(_, _)
AddChats(chs, n) ==
    IF n = 0 THEN chs ELSE AddChat(AddChats(chs, n - 1), RawChatOrder[n])

\* the lines joinChat writes for a chat, in order
JoinLines(id) ==
    IF RawSelfIsAdmin[id]
    THEN <<"JOIN", "332", "MODE", "353", "366">>
    ELSE <<"JOIN", "332", "353", "366">>

\* mutant: the Joined flag is not consulted
JoinWrites_IgnoresJoined(chs, i) ==
    /\ i # 0
    /\ RawIsGroupChat[chs[i].ID]

\* joinChat's guard: the call writes lines (chat not nil, a group chat, not
\* joined)
JoinWrites(chs, i) ==
    /\ i # 0
    /\ RawIsGroupChat[chs[i].ID]
    /\ ~chs[i].Joined

\* joinChat on conn.Chats[i] (i = 0: nil). k lines are written before the
\* transport fails; all of them when k = Len(JoinLines)
JoinChat(i, k) ==
    IF JoinWrites(Chats, i)
    THEN LET id == Chats[i].ID
             all == k = Len(JoinLines(id))
         IN /\ Len(joinOut[id]) + k <= MaxJoinLines
            /\ joinOut' = [joinOut EXCEPT ![id] = @ \o SubSeq(JoinLines(id), 1, k)]
            /\ Chats' = IF all THEN [Chats EXCEPT ![i].Joined = TRUE] ELSE Chats
            /\ sockOpen' = all
            /\ inbuf' = IF all THEN inbuf ELSE <<>>
            /\ joinResult' = IF all THEN "joined" ELSE "error"
    ELSE /\ joinResult' = IF i # 0 /\ RawIsGroupChat[Chats[i].ID]
                          THEN "already" ELSE "error"
         /\ UNCHANGED <<joinOut, Chats, sockOpen, inbuf>>

\* ------------------------------------------------------------- the client
ClientSendOf(msgs) ==
    /\ sockOpen
    /\ Len(inbuf) < MaxInbuf
    /\ \E m \in msgs : inbuf' = Append(inbuf, m)
    /\ UNCHANGED <<sockOpen, readerVars, dispVars, caps, cancelled,
                   bridgeRunning, Chats, timestampMap, db, saveVars, mainVars,
                   delivered, joinVars, liveVars>>

ClientSend == ClientSendOf(ClientMsgs)

ClientClose ==
    /\ sockOpen
    /\ sockOpen' = FALSE
    /\ inbuf' = <<>>
    /\ UNCHANGED <<readerVars, dispVars, caps, cancelled,
                   bridgeRunning, Chats, timestampMap, db, saveVars, mainVars,
                   delivered, joinVars, liveVars>>

\* ------------------------------------------------------ the reader goroutine
\* A PING is answered by the reader itself (lines 85-91)
IsPing(m) == m.cmd = "PING"

\* decoder.Decode() and what follows it, lines 78-93
ReaderDecode ==
    /\ readerPc = "decode"
    /\ IF inbuf # <<>>
       THEN /\ inbuf' = Tail(inbuf)
            /\ IF IsPing(Head(inbuf))
               THEN UNCHANGED readerVars
               ELSE /\ readerPc' = "send"
                    /\ readerMsg' = Head(inbuf)
       ELSE /\ ~sockOpen
            /\ readerPc' = "done"
            /\ UNCHANGED <<inbuf, readerMsg>>
    /\ UNCHANGED <<sockOpen, dispVars, caps, cancelled,
                   bridgeRunning, Chats, timestampMap, db, saveVars, mainVars,
                   delivered, joinVars, liveVars>>

\* ---------------------------------------------------- the dispatch goroutine
\* deferred teardown of BindSocket (lines 62-68) is modelled by MainReturn

\* case <-ctx.Done() (line 134)
DispatchCtxDone ==
    /\ dispPc = "select"
    /\ cancelled
    /\ dispPc' = "done"
    /\ UNCHANGED <<envVars, readerVars, attempt, nickname, welcomed,
                   welcomeLines, welcomeChClosed, gaveUp, setupErr, caps,
                   cancelled, bridgeRunning, Chats, timestampMap, db, saveVars,
                   mainVars, delivered, joinVars, liveVars>>

\* case msg, ok := <-ircCh with !ok (lines 137-140); defer cancel()
DispatchChClosed ==
    /\ dispPc = "select"
    /\ readerPc = "done"
    /\ dispPc' = "done"
    /\ cancelled' = TRUE
    /\ UNCHANGED <<envVars, readerVars, attempt, nickname, welcomed,
                   welcomeLines, welcomeChClosed, gaveUp, setupErr, caps,
                   bridgeRunning, Chats, timestampMap, db, saveVars, mainVars,
                   delivered, joinVars, liveVars>>

\* mutant: welcome() does not consult conn.welcomed
WelcomeSkipped_NickOnly(nick) == nick = ""

\* welcome()'s early return (line 98)
WelcomeSkipped(nick) == welcomed \/ nick = ""

\* a NICK message (lines 142-149) up to the start of retry.Do (line 113)
DispatchNick ==
    /\ dispPc = "select"
    /\ readerPc = "send"
    /\ readerMsg.cmd = "NICK"
    /\ readerPc' = "decode"
    /\ readerMsg' = NoMsg
    /\ nickname' = readerMsg.arg
    /\ IF WelcomeSkipped(readerMsg.arg)
       THEN UNCHANGED <<dispPc, attempt, welcomed, welcomeLines, cancelled>>
       ELSE IF sockOpen
       THEN /\ welcomeLines' = welcomeLines + 1
            /\ welcomed' = TRUE
            /\ attempt' = 0
            /\ dispPc' = "setup"
            /\ UNCHANGED cancelled
       ELSE \* the 001 line cannot be written: welcome returns the error, the
            \* status line cannot be written either
            /\ dispPc' = "done"
            /\ cancelled' = TRUE
            /\ UNCHANGED <<attempt, welcomed, welcomeLines>>
    /\ UNCHANGED <<envVars, welcomeChClosed, gaveUp, setupErr, caps,
                   bridgeRunning, Chats, timestampMap, db, saveVars, mainVars,
                   delivered, joinVars, liveVars>>

\* retry.Do gives up once the function was called Attempts times
RetryExhausted(n) == n >= Attempts

\* the points at which one call of setup() can return
SetupOutcomes == {"Start", "GetItem", "Open", "Save", "GetMe", "Convert", "None"}

\* one call of the retried function (lines 113-120): bridge.Stop(), then
\* setup() (lines 395-484) up to the point fp where it fails ("None": it
\* succeeds); n chats are added when convertChat fails on chat n+1; lsOk says
\* whether GetLocalStorage succeeded
SetupAttempt ==
    /\ dispPc = "setup"
    /\ \E fp \in SetupOutcomes, n \in 0..Len(RawChatOrder), lsOk \in BOOLEAN :
        LET rec == db[nickname]
            swapped == fp \notin {"Start", "GetItem"} /\ rec.found
            tm1 == IF swapped THEN rec.wm ELSE timestampMap
            saved == fp \in {"GetMe", "Convert", "None"} /\ lsOk
            added == IF fp = "None" THEN Len(RawChatOrder)
                     ELSE IF fp = "Convert" THEN n ELSE 0
        IN  /\ fp = "Convert" => n < Len(RawChatOrder)
            /\ fp # "Convert" => n = 0
            /\ fp \in {"Start", "GetItem", "Open", "Save"} => lsOk
            /\ bridgeRunning' = (fp # "Start")
            /\ timestampMap' = tm1
            /\ db' = IF saved THEN [db EXCEPT ![nickname] = UserRecord(tm1)] ELSE db
            /\ Chats' = AddChats(Chats, added)
            /\ setupErr' = fp
            /\ IF fp = "None"
               THEN \* retry.Do returns nil; close(conn.welcomeCh)
                    /\ attempt' = 0
                    /\ welcomeChClosed' = TRUE
                    /\ dispPc' = "select"
                    /\ UNCHANGED <<gaveUp, cancelled>>
               ELSE IF RetryExhausted(attempt + 1)
               THEN \* conn.status("giving up ..."), return, defer cancel()
                    /\ attempt' = attempt + 1
                    /\ gaveUp' = sockOpen
                    /\ dispPc' = "done"
                    /\ cancelled' = TRUE
                    /\ UNCHANGED welcomeChClosed
               ELSE /\ attempt' = attempt + 1
                    /\ UNCHANGED <<welcomeChClosed, dispPc, gaveUp, cancelled>>
    /\ UNCHANGED <<envVars, readerVars, nickname, welcomed, welcomeLines, caps,
                   saveVars, mainVars, delivered, joinVars, liveVars>>

\* handleIRCCommand for the capability commands: declare, finish
DispatchCap ==
    /\ dispPc = "select"
    /\ readerPc = "send"
    /\ readerMsg.cmd \in {"CAPREQ", "CAPEND"}
    /\ readerPc' = "decode"
    /\ readerMsg' = NoMsg
    /\ caps' = IF readerMsg.cmd = "CAPEND"
               THEN [caps EXCEPT !.finished = TRUE]
               ELSE IF caps.finished THEN caps
               ELSE [caps EXCEPT !.replay = TRUE]
    /\ UNCHANGED <<envVars, dispVars, cancelled,
                   bridgeRunning, Chats, timestampMap, db, saveVars, mainVars,
                   delivered, joinVars, liveVars>>

\* handleIRCCommand for JOIN: joinChat(GetChatByIdentifier(...)); a failed
\* write ends the goroutine (io.ErrClosedPipe, lines 154-156)
DispatchJoin ==
    /\ dispPc = "select"
    /\ readerPc = "send"
    /\ readerMsg.cmd = "JOIN"
    /\ readerPc' = "decode"
    /\ readerMsg' = NoMsg
    /\ LET i == ChatIndex(Chats, readerMsg.arg)
       IN \E k \in 0..Len(JoinLines(readerMsg.arg)) :
            /\ ~sockOpen => k = 0
            /\ JoinWrites(Chats, i) \/ k = 0
            /\ JoinChat(i, k)
            /\ IF JoinWrites(Chats, i) /\ k < Len(JoinLines(readerMsg.arg))
               THEN dispPc' = "done" /\ cancelled' = TRUE
               ELSE UNCHANGED <<dispPc, cancelled>>
    /\ UNCHANGED <<attempt, nickname, welcomed, welcomeLines,
                   welcomeChClosed, gaveUp, setupErr, caps,
                   bridgeRunning, timestampMap, db, saveVars, mainVars,
                   delivered, liveVars>>

\* the negotiation ends by its timeout
CapTimeout ==
    /\ ~caps.finished
    /\ caps' = [caps EXCEPT !.finished = TRUE]
    /\ UNCHANGED <<envVars, readerVars, dispVars, cancelled,
                   bridgeRunning, Chats, timestampMap, db, saveVars, mainVars,
                   delivered, joinVars, liveVars>>

\* ----------------------------------------------------- handleWhappMessage
\* The message is written to the client and the chat's watermark advances to
\* its timestamp, with a save of the record; or the delivery fails.
HandleWhappMessage(msg, ok) ==
    IF ok
    THEN /\ delivered' = Append(delivered, msg)
         /\ IF msg.ts > timestampMap[msg.chat]
            THEN /\ timestampMap' = TmSet(timestampMap, msg.chat, msg.ts)
                 /\ saveQ' = saveQ + 1
            ELSE UNCHANGED <<timestampMap, saveQ>>
    ELSE UNCHANGED <<delivered, timestampMap, saveQ>>

\* ------------------------------------------------------ BindSocket itself
\* the deferred calls of BindSocket: cancel(), conn.bridge.Stop(),
\* socket.Close() (lines 62-68)
Teardown ==
    /\ mainPc' = "returned"
    /\ cancelled' = TRUE
    /\ bridgeRunning' = FALSE
    /\ sockOpen' = FALSE
    /\ inbuf' = <<>>

\* <-conn.welcomeCh (line 163)
MainWelcome ==
    /\ mainPc = "waitWelcome"
    /\ welcomeChClosed
    /\ mainPc' = "waitNeg"
    /\ UNCHANGED <<envVars, readerVars, dispVars, caps, cancelled,
                   bridgeRunning, Chats, timestampMap, db, saveVars,
                   empty, ci, prevTimestamp, messages, mi, startWm, fetched,
                   delivered, joinVars, liveVars>>

\* conn.caps.WaitNegotiation() and line 166
MainNegotiated ==
    /\ mainPc = "waitNeg"
    /\ caps.finished
    /\ empty' = (TmLength(timestampMap) = 0)
    /\ ci' = 1
    /\ startWm' = timestampMap
    /\ mainPc' = "catchup"
    /\ UNCHANGED <<envVars, readerVars, dispVars, caps, cancelled,
                   bridgeRunning, Chats, timestampMap, db, saveVars,
                   prevTimestamp, messages, mi, fetched,
                   delivered, joinVars, liveVars>>

\* mutant: the reset needs both an empty map and a client without replay
ResetBranch_Both(isEmpty, replay) == isEmpty /\ ~replay

\* line 170: the chat's watermark is set to its current timestamp
ResetBranch(isEmpty, replay) == isEmpty \/ ~replay

\* line 174: nothing changed since the watermark
UpToDate(chatTs, prev) == chatTs <= prev

\* mutant: a message at the watermark is delivered again
SkipMessage_Strict(ts, prev) == ts < prev

\* mutant: the message right after the watermark is dropped
SkipMessage_OffByOne(ts, prev) == ts <= prev + 1

\* line 194: a fetched message that is not newer than prevTimestamp is skipped
SkipMessage(ts, prev) == ts <= prev

\* mutant: the fetched list is walked from its end
MessageAt_Reversed(msgs, i) == msgs[Len(msgs) + 1 - i]

\* line 193: range over messages, in the order of the list
MessageAt(msgs, i) == msgs[i]

\* one iteration of the loop over conn.Chats up to the fetch (lines 167-191)
CatchupChatOf(results) ==
    /\ mainPc = "catchup"
    /\ ci <= Len(Chats)
    /\ LET c == Chats[ci].ID
           got == TmGet(timestampMap, c)
       IN IF ResetBranch(empty, caps.replay)
          THEN /\ timestampMap' = TmSet(timestampMap, c, RawChatTimestamp[c])
               /\ saveQ' = saveQ + 1
               /\ ci' = ci + 1
               /\ UNCHANGED <<mainPc, prevTimestamp, messages, mi, fetched,
                              cancelled, bridgeRunning, envVars>>
          ELSE IF UpToDate(RawChatTimestamp[c], got.val)
          THEN /\ ci' = ci + 1
               /\ UNCHANGED <<mainPc, prevTimestamp, messages, mi, fetched,
                              cancelled, bridgeRunning, envVars, timestampMap,
                              saveQ>>
          ELSE \/ \E r \in results :
                    /\ prevTimestamp' = IF got.found THEN got.val ELSE MinInt64
                    /\ messages' = r
                    /\ fetched' = [fetched EXCEPT ![c] = r]
                    /\ mi' = 1
                    /\ mainPc' = "messages"
                    /\ UNCHANGED <<ci, cancelled, bridgeRunning, envVars,
                                   timestampMap, saveQ>>
               \/ \* the fetch fails: return err (line 190)
                  /\ Teardown
                  /\ UNCHANGED <<ci, prevTimestamp, messages, mi, fetched,
                                 timestampMap, saveQ>>
    /\ UNCHANGED <<readerVars, dispVars, caps, Chats, db, saveCopies,
                   empty, startWm, delivered, joinVars, liveVars>>

CatchupChat == CatchupChatOf(FetchResults)

\* one iteration of the loop over messages (lines 193-202)
CatchupMessage ==
    /\ mainPc = "messages"
    /\ IF mi > Len(messages)
       THEN \* the locals of the iteration go out of scope
            /\ ci' = ci + 1
            /\ mainPc' = "catchup"
            /\ mi' = 0
            /\ messages' = <<>>
            /\ prevTimestamp' = 0
            /\ UNCHANGED <<delivered, timestampMap, saveQ, cancelled,
                           bridgeRunning, envVars>>
       ELSE IF SkipMessage(MessageAt(messages, mi), prevTimestamp)
       THEN /\ mi' = mi + 1
            /\ UNCHANGED <<ci, mainPc, delivered, timestampMap, saveQ,
                           cancelled, bridgeRunning, envVars, messages,
                           prevTimestamp>>
       ELSE \E ok \in BOOLEAN :
            /\ ok => sockOpen
            /\ HandleWhappMessage([chat |-> Chats[ci].ID,
                                   ts |-> MessageAt(messages, mi),
                                   id |-> 0], ok)
            /\ IF ok
               THEN /\ mi' = mi + 1
                    /\ UNCHANGED <<ci, mainPc, cancelled, bridgeRunning,
                                   envVars, messages, prevTimestamp>>
               ELSE \* return err (line 200)
                    /\ Teardown
                    /\ UNCHANGED <<ci, mi, messages, prevTimestamp>>
    /\ UNCHANGED <<readerVars, dispVars, caps, Chats, db, saveCopies,
                   empty, startWm, fetched, joinVars, liveVars>>

\* mutant: the loop over conn.Chats ends after its first iteration
CatchupFinished_AfterFirst(i, chs) == i > 1

\* the range over conn.Chats (line 167) has passed every chat
CatchupFinished(i, chs) == i > Len(chs)

\* the loop is over: status("ready for new messages") and the two
\* supervisory goroutines are started (lines 204-263)
CatchupDone ==
    /\ mainPc = "catchup"
    /\ CatchupFinished(ci, Chats)
    /\ mainPc' = "waitCtx"
    /\ pollPc' = "run"
    /\ livePc' = "select"
    /\ UNCHANGED <<envVars, readerVars, dispVars, caps, cancelled,
                   bridgeRunning, Chats, timestampMap, db, saveVars,
                   empty, ci, prevTimestamp, messages, mi, startWm, fetched,
                   delivered, joinVars, queue, msgFut, nextSlot>>

\* <-ctx.Done() (line 265), return nil and the deferred calls
MainReturn ==
    /\ mainPc = "waitCtx"
    /\ cancelled
    /\ Teardown
    /\ UNCHANGED <<readerVars, dispVars, caps, Chats, timestampMap, db,
                   saveVars, empty, ci, prevTimestamp, messages, mi, startWm,
                   fetched, delivered, joinVars, liveVars>>

\* ------------------------------------------------------ saveDatabaseEntry
\* conn.timestampMap.GetCopy() of a spawned save (line 500)
SaveCopy ==
    /\ saveQ > 0
    /\ saveQ' = saveQ - 1
    /\ saveCopies' = saveCopies \cup {[nick |-> nickname, wm |-> timestampMap]}
    /\ UNCHANGED <<envVars, readerVars, dispVars, caps, cancelled,
                   bridgeRunning, Chats, timestampMap, db, mainVars,
                   delivered, joinVars, liveVars>>

\* userDb.SaveItem of a spawned save (line 498); an error is logged; oks are
\* the outcomes the store may have
SaveWriteOf(oks) ==
    /\ \E s \in saveCopies, ok \in oks :
         /\ saveCopies' = saveCopies \ {s}
         /\ db' = IF ok THEN [db EXCEPT ![s.nick] = UserRecord(s.wm)] ELSE db
    /\ UNCHANGED <<envVars, readerVars, dispVars, caps, cancelled,
                   bridgeRunning, Chats, timestampMap, saveQ, mainVars,
                   delivered, joinVars, liveVars>>

SaveWrite == SaveWriteOf(BOOLEAN)

\* ------------------------------------------------------ logged-in poll
\* case <-ctx.Done() (line 213)
PollCtxDone ==
    /\ pollPc = "run"
    /\ cancelled
    /\ pollPc' = "done"
    /\ UNCHANGED <<envVars, readerVars, dispVars, caps, cancelled,
                   bridgeRunning, Chats, timestampMap, db, saveVars, mainVars,
                   delivered, joinVars, livePc, queue, msgFut, nextSlot>>

\* errCh delivers an error, or resCh delivers false: logged out (216-227)
PollLoggedOut ==
    /\ pollPc = "run"
    /\ pollPc' = "done"
    /\ cancelled' = TRUE
    /\ UNCHANGED <<envVars, readerVars, dispVars, caps,
                   bridgeRunning, Chats, timestampMap, db, saveVars, mainVars,
                   delivered, joinVars, livePc, queue, msgFut, nextSlot>>

\* ----------------------------------------------------------- live relay
\* the content of the live event of a slot
LiveMessage(id) == [chat |-> "c1", ts |-> MaxTs, id |-> id]

\* the platform reports a message: GetMessageQueue gives it the next slot and
\* appends its future to the queue
LiveArriveOf(maxEvents) ==
    /\ livePc \in {"select", "await"}
    /\ nextSlot <= maxEvents
    /\ Len(queue) < QueueWindow
    /\ queue' = Append(queue, [id |-> nextSlot, res |-> "pending"])
    /\ nextSlot' = nextSlot + 1
    /\ UNCHANGED <<envVars, readerVars, dispVars, caps, cancelled,
                   bridgeRunning, Chats, timestampMap, db, saveVars, mainVars,
                   delivered, joinVars, pollPc, livePc, msgFut>>

LiveArrive == LiveArriveOf(MaxLive)

\* the resolution of one event completes, in any order, with or without error
LiveResolve ==
    /\ \E r \in {"ok", "err"} :
         \/ /\ msgFut.res = "pending"
            /\ msgFut' = [msgFut EXCEPT !.res = r]
            /\ UNCHANGED queue
         \/ /\ \E i \in 1..Len(queue) :
                 /\ queue[i].res = "pending"
                 /\ queue' = [queue EXCEPT ![i].res = r]
            /\ UNCHANGED msgFut
    /\ UNCHANGED <<envVars, readerVars, dispVars, caps, cancelled,
                   bridgeRunning, Chats, timestampMap, db, saveVars, mainVars,
                   delivered, joinVars, pollPc, livePc, nextSlot>>

\* mutant: the consumer takes the first future that is already resolved
NextFuture_FirstResolved(q) ==
    IF \E i \in 1..Len(q) : q[i].res # "pending"
    THEN CHOOSE i \in 1..Len(q) :
             /\ q[i].res # "pending"
             /\ \A j \in 1..(i - 1) : q[j].res = "pending"
    ELSE 1

\* the future the consumer receives from the queue: the channel's head
NextFuture(q) == 1

\* case msgFut := <-queue (line 250)
LiveTake ==
    /\ livePc = "select"
    /\ queue # <<>>
    /\ LET i == NextFuture(queue)
       IN /\ msgFut' = queue[i]
          /\ queue' = SubSeq(queue, 1, i - 1) \o SubSeq(queue, i + 1, Len(queue))
    /\ livePc' = "await"
    /\ UNCHANGED <<envVars, readerVars, dispVars, caps, cancelled,
                   bridgeRunning, Chats, timestampMap, db, saveVars, mainVars,
                   delivered, joinVars, pollPc, nextSlot>>

\* mutant: the relay goroutine returns when an event fails
LiveAfterHandle_StopOnError(ok) == IF ok THEN "select" ELSE "done"

\* lines 256-260: after an error is logged, as after a delivery, the loop
\* goes back to its select
LiveAfterHandle(ok) == "select"

\* msgRes := <-msgFut and the handling of the result (lines 251-259)
LiveHandle ==
    /\ livePc = "await"
    /\ msgFut.res \in {"ok", "err"}
    /\ \E ok \in BOOLEAN :
         /\ ok => (sockOpen /\ msgFut.res = "ok")
         /\ msgFut.res = "err" => ~ok
         /\ HandleWhappMessage(LiveMessage(msgFut.id), ok)
         /\ livePc' = LiveAfterHandle(ok)
    /\ msgFut' = NoFut
    /\ UNCHANGED <<envVars, readerVars, dispVars, caps, cancelled,
                   bridgeRunning, Chats, db, saveCopies, mainVars,
                   joinVars, pollPc, queue, nextSlot>>

\* case <-ctx.Done() (line 243)
LiveCtxDone ==
    /\ livePc = "select"
    /\ cancelled
    /\ livePc' = "done"
    /\ UNCHANGED <<envVars, readerVars, dispVars, caps, cancelled,
                   bridgeRunning, Chats, timestampMap, db, saveVars, mainVars,
                   delivered, joinVars, pollPc, queue, msgFut, nextSlot>>

\* case err := <-errCh (line 246); defer cancel()
LiveListenError ==
    /\ livePc = "select"
    /\ livePc' = "done"
    /\ cancelled' = TRUE
    /\ UNCHANGED <<envVars, readerVars, dispVars, caps,
                   bridgeRunning, Chats, timestampMap, db, saveVars, mainVars,
                   delivered, joinVars, pollPc, queue, msgFut, nextSlot>>

\* ------------------------------------------------------- specifications
Environment ==
    \/ ClientSend
    \/ ClientClose
    \/ CapTimeout
    \/ PollLoggedOut
    \/ LiveArrive
    \/ LiveListenError

Program ==
    \/ ReaderDecode
    \/ DispatchCtxDone
    \/ DispatchChClosed
    \/ DispatchNick
    \/ SetupAttempt
    \/ DispatchCap
    \/ DispatchJoin
    \/ MainWelcome
    \/ MainNegotiated
    \/ CatchupChat
    \/ CatchupMessage
    \/ CatchupDone
    \/ MainReturn
    \/ SaveCopy
    \/ SaveWrite
    \/ PollCtxDone
    \/ LiveResolve
    \/ LiveTake
    \/ LiveHandle
    \/ LiveCtxDone

Next == Environment \/ Program

Spec == Init /\ [][Next]_vars

\* ------------------------------------------------------------- scenarios
\* Restrictions of Spec to the inputs one group of operations depends on.
\* Every behaviour of a scenario is a behaviour of Spec.

\* Catch-up: every store, every fetch result; the client requests the replay
\* capability or not, then sends its nickname, each message after the one
\* before was dispatched, and is silent once welcomed; the scenario ends when
\* catch-up has started the supervisory goroutines or has failed. The
\* spawned saves are not scheduled: they write db, saveQ and saveCopies only,
\* which no step of catch-up reads.
CatchupMsgs ==
    {[cmd |-> "NICK", arg |-> "n1"], [cmd |-> "CAPREQ", arg |-> ""]}

CatchupClient ==
    /\ ~welcomed
    /\ inbuf = <<>>
    /\ readerPc = "decode"
    /\ ClientSendOf(CatchupMsgs)

NextCatchup ==
    \/ CatchupClient
    \/ CapTimeout
    \/ ReaderDecode
    \/ DispatchNick
    \/ SetupAttempt
    \/ DispatchCap
    \/ MainWelcome
    \/ MainNegotiated
    \/ CatchupChat
    \/ CatchupMessage
    \/ CatchupDone

SpecCatchup == Init /\ [][NextCatchup]_vars

\* Handshake: every client message at any time, the transport closing at any
\* time, setup failing at any point; one store (a record for "n1", none for
\* "n2"), one fetch result, no live events, spawned saves not scheduled.
HandshakeStores ==
    {[n \in Nicks |->
        IF n = "n1"
        THEN UserRecord([c \in AllChats |-> IF c = "c1" THEN 1 ELSE 3])
        ELSE NoRecord]}

HandshakeFetch == {<<2>>}

InitHandshake == InitOf(HandshakeStores)

HandshakeCatchupChat == CatchupChatOf(HandshakeFetch)

HandshakeEnvironment ==
    \/ ClientSend
    \/ ClientClose
    \/ CapTimeout
    \/ PollLoggedOut
    \/ LiveListenError

NextHandshake ==
    \/ HandshakeEnvironment
    \/ ReaderDecode
    \/ DispatchCtxDone
    \/ DispatchChClosed
    \/ DispatchNick
    \/ SetupAttempt
    \/ DispatchCap
    \/ DispatchJoin
    \/ MainWelcome
    \/ MainNegotiated
    \/ HandshakeCatchupChat
    \/ CatchupMessage
    \/ CatchupDone
    \/ MainReturn
    \/ PollCtxDone
    \/ LiveCtxDone

SpecHandshake == InitHandshake /\ [][NextHandshake]_vars

\* Every goroutine that can take a step eventually takes it, and the
\* negotiation timeout expires. The client and the platform are under no
\* obligation.
FairHandshake ==
    /\ SpecHandshake
    /\ WF_vars(CapTimeout)
    /\ WF_vars(ReaderDecode)
    /\ WF_vars(DispatchCtxDone)
    /\ WF_vars(DispatchChClosed)
    /\ WF_vars(DispatchNick)
    /\ WF_vars(SetupAttempt)
    /\ WF_vars(DispatchCap)
    /\ WF_vars(DispatchJoin)
    /\ WF_vars(MainWelcome)
    /\ WF_vars(MainNegotiated)
    /\ WF_vars(HandshakeCatchupChat)
    /\ WF_vars(CatchupMessage)
    /\ WF_vars(CatchupDone)
    /\ WF_vars(MainReturn)
    /\ WF_vars(PollCtxDone)
    /\ WF_vars(LiveCtxDone)

\* Live relay: a client without a record performs the handshake and is silent
\* afterwards; live events arrive and resolve in any order, with or without
\* error; spawned saves not scheduled.
LiveStores == {[n \in Nicks |-> NoRecord]}

InitLive == InitOf(LiveStores)

LiveClient ==
    /\ mainPc = "waitWelcome"
    /\ ClientSendOf({[cmd |-> "NICK", arg |-> "n1"]})

NextLive ==
    \/ LiveClient
    \/ ClientClose
    \/ CapTimeout
    \/ PollLoggedOut
    \/ LiveArrive
    \/ LiveListenError
    \/ ReaderDecode
    \/ DispatchCtxDone
    \/ DispatchChClosed
    \/ DispatchNick
    \/ SetupAttempt
    \/ MainWelcome
    \/ MainNegotiated
    \/ CatchupChat
    \/ CatchupDone
    \/ MainReturn
    \/ PollCtxDone
    \/ LiveResolve
    \/ LiveTake
    \/ LiveHandle
    \/ LiveCtxDone

SpecLive == InitLive /\ [][NextLive]_vars

\* Ready: the client of the Handshake store negotiates, or not, the replay
\* capability and sends its nickname; catch-up fetches and delivers, then the
\* live relay runs on events that arrive and resolve in any order. The
\* transport stays open and spawned saves are not scheduled.
NextReady ==
    \/ CatchupClient
    \/ CapTimeout
    \/ ReaderDecode
    \/ DispatchNick
    \/ SetupAttempt
    \/ DispatchCap
    \/ MainWelcome
    \/ MainNegotiated
    \/ HandshakeCatchupChat
    \/ CatchupMessage
    \/ CatchupDone
    \/ LiveArrive
    \/ LiveResolve
    \/ LiveTake
    \/ LiveHandle

SpecReady == InitHandshake /\ [][NextReady]_vars

\* Saves: a client without a record performs the handshake; catch-up sets the
\* watermark of every chat and spawns a save each time; the spawned saves take
\* their copy and write it at any time, and the store accepts every write.
SaveWriteAccepted == SaveWriteOf({TRUE})

NextSaves ==
    \/ CatchupClient
    \/ CapTimeout
    \/ ReaderDecode
    \/ DispatchNick
    \/ SetupAttempt
    \/ DispatchCap
    \/ MainWelcome
    \/ MainNegotiated
    \/ CatchupChat
    \/ CatchupDone
    \/ SaveCopy
    \/ SaveWriteAccepted

SpecSaves == InitLive /\ [][NextSaves]_vars

\* The chat list by itself: addChat and joinChat called in any order on the
\* chats of the platform, as the methods of Connection allow; the transport
\* may fail in the middle of a join. Nothing else of the connection moves.
AddChatCall ==
    /\ \E id \in AllChats : Chats' = AddChat(Chats, id)
    /\ UNCHANGED <<envVars, readerVars, dispVars, caps, cancelled,
                   bridgeRunning, timestampMap, db, saveVars, mainVars,
                   delivered, joinVars, liveVars>>

JoinChatCall ==
    /\ \E id \in AllChats : \E k \in 0..Len(JoinLines(id)) :
         LET i == ChatIndex(Chats, id)
         IN /\ ~sockOpen => k = 0
            /\ JoinWrites(Chats, i) \/ k = 0
            /\ JoinChat(i, k)
    /\ UNCHANGED <<readerVars, dispVars, caps, cancelled,
                   bridgeRunning, timestampMap, db, saveVars, mainVars,
                   delivered, liveVars>>

NextChats ==
    \/ AddChatCall
    \/ JoinChatCall

SpecChats == InitLive /\ [][NextChats]_vars

\* ------------------------------------------------------------------ claims
\* the timestamps catch-up delivered for chat c, in delivery order
DeliveredTs(c) ==
    LET OfChat(m) == m.chat = c /\ m.id = 0
        sel == SelectSeq(delivered, OfChat)
    IN [k \in 1..Len(sel) |-> sel[k].ts]

\* the entries of a fetched list that are newer than watermark w
Newer(list, w) ==
    LET IsNewer(t) == t > w
    IN SelectSeq(list, IsNewer)

NonDecreasing(list) ==
    \A k \in 1..Len(list), l \in 1..Len(list) : k < l => list[k] <= list[l]

CatchupStarted == ci >= 1

\* the catch-up loop has finished the iteration of conn.Chats[i]
ChatDone(i) == CatchupStarted /\ i < ci

\* C1: when the Watermark Map was empty at the start of catch-up, or replay
\* was not negotiated, nothing is fetched, nothing is delivered, and every
\* chat the loop has passed has its watermark at the chat's current timestamp.
C1_ResetWithoutHistory ==
    (CatchupStarted /\ (startWm = EmptyMap \/ ~caps.replay)) =>
        /\ delivered = <<>>
        /\ \A c \in AllChats : fetched[c] = NotFetched
        /\ \A i \in 1..Len(Chats) :
             ChatDone(i) =>
                 timestampMap[Chats[i].ID] = RawChatTimestamp[Chats[i].ID]

\* C1 witness: catch-up ran to its end without replay on a non-empty map and
\* moved the watermark of c1 from 1 to the chat's timestamp
C1_Witness ==
    /\ mainPc = "waitCtx"
    /\ ~caps.replay
    /\ startWm["c1"] = 1
    /\ startWm["c2"] = 3
    /\ timestampMap["c1"] = RawChatTimestamp["c1"]

\* C2: catch-up never delivers a message whose timestamp is at or below the
\* watermark its chat had when catch-up started.
C2_NeverAtOrBelowStartWatermark ==
    \A k \in 1..Len(delivered) :
        delivered[k].ts > startWm[delivered[k].chat]

\* C2 witness: the fetch returned an old message and a new one for a chat with
\* watermark 2, and catch-up delivered
C2_Witness ==
    /\ mainPc = "waitCtx"
    /\ startWm["c2"] = 2
    /\ fetched["c2"] = <<1, 3>>
    /\ DeliveredTs("c2") = <<3>>

C7_WatermarkNeverLowered ==
    [][\A c \in AllChats :
          timestampMap[c] # Absent => timestampMap'[c] >= timestampMap[c]]_vars

\* C9: with replay negotiated and a non-empty Watermark Map, once the loop has
\* passed a chat whose timestamp is newer than its watermark, the chat was
\* fetched and exactly the fetched messages newer than that watermark (all of
\* them when the chat had no entry) were delivered, once each, in fetch order.
C9_EveryNewerMessageDelivered ==
    \A i \in 1..Len(Chats) :
        LET c == Chats[i].ID
        IN (/\ ChatDone(i)
            /\ caps.replay
            /\ startWm # EmptyMap
            /\ RawChatTimestamp[c] > startWm[c]) =>
               /\ fetched[c] # NotFetched
               /\ DeliveredTs(c) = Newer(fetched[c], startWm[c])

\* C9 witness: c1 had watermark 1 and c2 no entry; an unsorted list with an old
\* message was fetched for c1, and both messages fetched for c2 were delivered
C9_Witness ==
    /\ mainPc = "waitCtx"
    /\ startWm["c1"] = 1
    /\ startWm["c2"] = Absent
    /\ fetched["c1"] = <<2, 1>>
    /\ fetched["c2"] = <<1, 3>>
    /\ DeliveredTs("c1") = <<2>>
    /\ DeliveredTs("c2") = <<1, 3>>

\* retry.Do returned an error: every call of setup failed
SetupGaveUp == dispPc = "done" /\ attempt > 0

\* C4 as claimed: when every setup attempt fails, setup was called exactly
\* Attempts times, the "giving up" status line is written (the transport still
\* being open), and BindSocket then returns, which closes the socket and stops
\* the Session Bridge.
C4_FiveAttemptsThenClosed ==
    /\ [](SetupGaveUp => attempt = Attempts)
    /\ [](SetupGaveUp /\ sockOpen => gaveUp)
    /\ (SetupGaveUp ~> mainPc = "returned")

\* the lines joinChat wrote for chat c that are JOIN lines
JoinCount(c) ==
    Cardinality({k \in 1..Len(joinOut[c]) : joinOut[c][k] = "JOIN"})

IsJoined(c) == \E i \in 1..Len(Chats) : Chats[i].ID = c /\ Chats[i].Joined

\* C5: over any sequence of joinChat calls the JOIN line of a chat is written at
\* most once, and a joined chat has had exactly one JOIN/332/353/366 sequence
\* written: a call on a joined chat returns nil and writes nothing.
C5_JoinSequenceOnce ==
    \A c \in AllChats :
        /\ JoinCount(c) <= 1
        /\ IsJoined(c) => joinOut[c] = JoinLines(c)

\* C5 witness: joinChat was called on the joined chat c1 and returned nil
C5_Witness ==
    /\ joinResult = "already"
    /\ IsJoined("c1")
    /\ joinOut["c1"] = JoinLines("c1")

\* a PING the client sent has not been read
PingPending == \E k \in 1..Len(inbuf) : IsPing(inbuf[k])

\* C8 as claimed: a PING sent while the transport is open can be answered in
\* every state of the connection, in particular while the dispatch goroutine is
\* inside the retrying setup and an earlier message is not dispatched: the
\* reader is at its decoder, not blocked handing over the earlier message.
C8_PingAnsweredDuringSetup ==
    (sockOpen /\ PingPending /\ dispPc = "setup") => readerPc = "decode"

\* C10 as claimed: once the transport is closed or the cancellation scope is
\* cancelled, in whatever state, BindSocket eventually returns.
C10_CancelLeadsToClosed ==
    (~sockOpen \/ cancelled) ~> (mainPc = "returned")

\* the slots of the live events handed to the client, in delivery order
LiveDelivered ==
    LET IsLive(m) == m.id # 0
        sel == SelectSeq(delivered, IsLive)
    IN [k \in 1..Len(sel) |-> sel[k].id]

\* C6: live events are delivered in the order of their arrival (their slots),
\* whatever the order in which their resolutions complete: every delivered slot
\* precedes the slot the consumer is waiting for, which precedes every slot
\* still in the queue.
C6_LiveInArrivalOrder ==
    /\ \A k \in 1..Len(LiveDelivered), l \in 1..Len(LiveDelivered) :
         k < l => LiveDelivered[k] < LiveDelivered[l]
    /\ msgFut # NoFut =>
         /\ \A k \in 1..Len(LiveDelivered) : LiveDelivered[k] < msgFut.id
         /\ \A j \in 1..Len(queue) : msgFut.id < queue[j].id
    /\ \A k \in 1..Len(LiveDelivered), j \in 1..Len(queue) :
         LiveDelivered[k] < queue[j].id

\* C6 witness: slot 2 is resolved while the consumer, which took slot 1, still
\* waits for its result
C6_Witness ==
    /\ livePc = "await"
    /\ msgFut = [id |-> 1, res |-> "pending"]
    /\ queue = <<[id |-> 2, res |-> "ok"]>>

\* C11 as claimed: a welcome line (001/002) is on the wire only once the
\* retrying setup has succeeded, which is when welcomeCh is closed.
C11_WelcomeOnlyAfterSetup ==
    welcomeLines > 0 => welcomeChClosed

\* C12: whatever NICK messages arrive, the retrying setup is entered at most
\* once and with it one welcome is written: the dispatch goroutine is inside
\* retry.Do only with exactly one welcome written and welcomeCh still open, so
\* welcomeCh is closed at most once.
C12_SetupEnteredAtMostOnce ==
    /\ welcomeLines <= 1
    /\ dispPc = "setup" => (welcomeLines = 1 /\ welcomed /\ ~welcomeChClosed)
    /\ welcomeChClosed => (welcomeLines = 1 /\ welcomed)

\* C12 witness: the handshake of "n1" restored its watermarks and succeeded,
\* and a later NICK "n2" was dispatched without a second welcome
C12_Witness ==
    /\ welcomeChClosed
    /\ dispPc = "select"
    /\ nickname = "n2"
    /\ timestampMap["c1"] = 1
    /\ welcomeLines = 1

\* C13 as claimed: once the welcome was sent, no step changes the assigned
\* nickname.
C13_NicknameFixedAfterWelcome ==
    [][welcomed => nickname' = nickname]_vars

\* C14 as claimed: while the transport is open, a failed delivery in the loop
\* over the fetched messages does not end BindSocket.
C14_CatchupSurvivesDeliveryError ==
    [][(mainPc = "messages" /\ sockOpen) => mainPc' # "returned"]_vars

\* C15: the step that handles the result of a live event, failed or not,
\* takes the relay back to its select without cancelling the scope, leaves the
\* queue as it is, and delivers either nothing (the slot is skipped) or the
\* event of that slot; slots behind a skipped slot are still delivered in
\* arrival order.
C15_LiveSurvivesEventError ==
    [][(livePc = "await" /\ livePc' # "await") =>
          /\ livePc' = "select"
          /\ cancelled' = cancelled
          /\ queue' = queue
          /\ \/ delivered' = delivered
             \/ /\ msgFut.res = "ok"
                /\ delivered' = Append(delivered, LiveMessage(msgFut.id))
          /\ \A k \in 1..Len(LiveDelivered) : LiveDelivered[k] < msgFut.id]_vars

\* C15 witness: slot 1 was skipped, slots 2 and 3 were delivered after it, and
\* the scope is not cancelled
C15_Witness ==
    /\ LiveDelivered = <<2, 3>>
    /\ livePc = "select"
    /\ ~cancelled

\* C16 as claimed: setup() never returns the error of saveDatabaseEntry.
C16_SaveErrorNotFatal ==
    setupErr # "Save"

\* C17: the chat list never holds two entries with the same ID, and no step
\* moves or removes an entry: addChat of an ID that is in the list leaves the
\* length and the position of every entry as they are, and changes no entry
\* but the one with that ID.
C17_OneChatPerIdentifier ==
    /\ [](\A i \in 1..Len(Chats), j \in 1..Len(Chats) :
             i # j => Chats[i].ID # Chats[j].ID)
    /\ [][/\ Len(Chats') >= Len(Chats)
          /\ \A i \in 1..Len(Chats) : Chats'[i].ID = Chats[i].ID
          /\ Cardinality({i \in 1..Len(Chats) : Chats'[i] # Chats[i]}) <= 1]_vars

\* C17 witness: c1 was joined and then discovered again: its entry was
\* replaced at position 1 of a list of two
C17_Witness ==
    /\ Len(Chats) = 2
    /\ Chats[1] = ConvertChat("c1")
    /\ Chats[2].ID = "c2"
    /\ joinOut["c1"] = JoinLines("c1")

\* C18 as claimed: a chat that is joined stays joined in every step.
C18_JoinedNeverReset ==
    [][\A i \in 1..Len(Chats) :
          Chats[i].Joined =>
              \E j \in 1..Len(Chats') :
                  Chats'[j].ID = Chats[i].ID /\ Chats'[j].Joined]_vars

\* C19: catch-up has started only when setup has succeeded (welcomeCh is
\* closed, the chat list is populated) and the negotiation is finished; the
\* poll and the live relay exist only when the loop has passed every chat; and
\* no catch-up delivery follows a live delivery.
C19_CatchupThenLive ==
    /\ CatchupStarted =>
         (welcomeChClosed /\ caps.finished /\ Len(Chats) = Len(RawChatOrder))
    /\ mainPc \in {"catchup", "messages"} => CatchupStarted
    /\ (pollPc # "off" \/ livePc # "off") =>
         (mainPc \in {"waitCtx", "returned"} /\ ci > Len(Chats))
    /\ \A k \in 1..Len(delivered), l \in 1..Len(delivered) :
         (k < l /\ delivered[k].id # 0) => delivered[l].id # 0

\* C19 witness: catch-up delivered the fetched message of c1, and the live
\* relay then delivered an event
C19_Witness ==
    /\ Len(delivered) >= 2
    /\ delivered[1] = [chat |-> "c1", ts |-> 2, id |-> 0]
    /\ delivered[Len(delivered)].id # 0

\* C20 as claimed: when catch-up is over and every save it spawned has taken
\* its copy and written it, the record of the nickname holds the Watermark Map
\* as it is in memory.
C20_SavesLeaveNoStaleRecord ==
    (/\ mainPc = "waitCtx"
     /\ timestampMap # EmptyMap
     /\ saveQ = 0
     /\ saveCopies = {}) =>
        db[nickname] = UserRecord(timestampMap)

====
